---- MODULE Spec2Model ----
(***************************************************************************)
(* ts-validator: the schema-combinator engine of index.ts.                 *)
(*                                                                         *)
(* Schemas are instances on a heap (a schema refers to its children by     *)
(* reference and refine() mutates an instance in place).  The parse        *)
(* pipeline is a family of recursive operators over (heap, schema, path,   *)
(* data), one per _parse method, returning the outcome of the call         *)
(* together with the log of the _parse calls and refinement checks it      *)
(* made.                                                                   *)
(***************************************************************************)
EXTENDS Integers, Sequences, FiniteSets, TLC

(***************************************************************************)
(* Bounds of the model.                                                    *)
(***************************************************************************)
MaxSize == 3         \* instances constructed plus refine() calls made, any schema
MaxChain == 4        \* the same, for chains of modifiers over a string schema
MaxUnion == 5        \* instances constructed, for unions of object schemas
MaxItems == 2        \* length of an input array
MaxOptions == 2      \* members of a union
MaxFields == 2       \* declared fields of an object shape

(***************************************************************************)
(* Runtime values.  A value is a record tagged with its JavaScript kind.   *)
(***************************************************************************)
Undefined == [k |-> "undefined"]
Null == [k |-> "null"]
NaN == [k |-> "NaN"]
Str(s) == [k |-> "string", s |-> s]
Num(n) == [k |-> "number", n |-> n]
Bool(b) == [k |-> "boolean", b |-> b]
\* a Date object; t renders getTime(), "NaN" for an invalid date
DateOf(t) == [k |-> "Date", t |-> t]
Arr(items) == [k |-> "array", items |-> items]
\* a plain object; fields is a function from its own keys to values
Obj(fields) == [k |-> "object", fields |-> fields]

\* the typeof operator
TypeOf(v) ==
    CASE v.k = "undefined" -> "undefined"
      [] v.k = "string" -> "string"
      [] v.k \in {"number", "NaN"} -> "number"
      [] v.k = "boolean" -> "boolean"
      [] OTHER -> "object"

\* the array index a property name denotes, -1 when it is not an index
KeyIndex(key) ==
    CASE key = "0" -> 0
      [] key = "1" -> 1
      [] key = "2" -> 2
      [] OTHER -> -1

\* obj[key] on a non-null value of type object
GetProp(obj, key) ==
    CASE obj.k = "object" ->
            IF key \in DOMAIN obj.fields THEN obj.fields[key] ELSE Undefined
      [] obj.k = "array" ->
            IF KeyIndex(key) >= 0 /\ KeyIndex(key) < Len(obj.items)
            THEN obj.items[KeyIndex(key) + 1] ELSE Undefined
      [] OTHER -> Undefined

RECURSIVE JSONstringify(_)
\* JSON.stringify(value) as the tree it renders, "undefined" when it
\* returns undefined
JSONstringify(v) ==
    CASE v.k = "undefined" -> [j |-> "undefined"]
      [] v.k \in {"null", "NaN"} -> [j |-> "null"]
      [] v.k = "string" -> [j |-> "string", s |-> v.s]
      [] v.k = "number" -> [j |-> "number", n |-> v.n]
      [] v.k = "boolean" -> [j |-> "boolean", b |-> v.b]
      [] v.k = "Date" ->
            IF v.t = "NaN" THEN [j |-> "null"] ELSE [j |-> "string", iso |-> v.t]
      [] v.k = "array" ->
            [j |-> "array",
             items |-> [i \in 1..Len(v.items) |->
                          IF v.items[i].k = "undefined" THEN [j |-> "null"]
                          ELSE JSONstringify(v.items[i])]]
      [] v.k = "object" ->
            [j |-> "object",
             fields |-> [key \in {q \in DOMAIN v.fields : v.fields[q].k # "undefined"} |->
                           JSONstringify(v.fields[key])]]

(***************************************************************************)
(* Issues, errors and the outcome of a call.                               *)
(***************************************************************************)
\* path segments: an object key or a 0-based array index
KeySeg(key) == [t |-> "key", s |-> key]
\* the index segment counted from 1
IdxSeg_oneBased(i) == [t |-> "idx", i |-> i + 1]
IdxSeg(i) == [t |-> "idx", i |-> i]

\* an outcome: st is "ok" (val returned), "fail" (ValidationError(issues)
\* raised) or "throw" (another error raised); ref tells which object a
\* returned val is: the data argument itself ("data"), the schema's literal
\* ("val") or a newly allocated one ("new"); log is what was called
Ok(val, ref, log) ==
    [st |-> "ok", val |-> val, ref |-> ref, issues |-> <<>>, log |-> log]
Fail(issues, log) ==
    [st |-> "fail", val |-> Undefined, ref |-> "none", issues |-> issues, log |-> log]
Throw(log) ==
    [st |-> "throw", val |-> Undefined, ref |-> "none", issues |-> <<>>, log |-> log]

makeError(path, expected, received, value) ==
    <<[path |-> path,
       message |-> [text |-> "Invalid value at", at |-> path, expected |-> expected,
                    received |-> received, value |-> JSONstringify(value)],
       expected |-> expected,
       received |-> received]>>

\* log entries
ParseEv(id, path) == [ev |-> "parse", id |-> id, path |-> path]
CheckEv(id, path, idx, res) == [ev |-> "check", id |-> id, path |-> path, idx |-> idx, res |-> res]

(***************************************************************************)
(* Refinement predicates a caller passes to refine().                      *)
(***************************************************************************)
\* check(value): "true", "false", or "throw" when the predicate raises
Check(check, v) ==
    CASE check = "never" -> "false"
      [] check = "always" -> "true"
      [] check = "boom" -> "throw"
      \* (s) => s.length >= 1
      [] check = "nonEmpty" ->
            CASE v.k \in {"undefined", "null"} -> "throw"
              [] v.k = "string" -> IF Len(v.s) >= 1 THEN "true" ELSE "false"
              [] v.k = "array" -> IF Len(v.items) >= 1 THEN "true" ELSE "false"
              [] OTHER -> "false"

RECURSIVE runRefinementsFrom(_, _, _, _, _)
runRefinementsFrom(refinements, idx, id, value, path) ==
    IF idx > Len(refinements) THEN Ok(value, "data", <<>>)
    ELSE LET r == refinements[idx]
             res == Check(r.check, value)
             ev == <<CheckEv(id, path, idx, res)>>
         IN CASE res = "throw" -> Throw(ev)
              [] res = "false" ->
                    Fail(<<[path |-> path,
                            message |-> [text |-> r.message],
                            expected |-> "refinement to pass",
                            received |-> TypeOf(value)]>>, ev)
              [] OTHER ->
                    LET rest == runRefinementsFrom(refinements, idx + 1, id, value, path)
                    IN [rest EXCEPT !.log = ev \o rest.log]

RECURSIVE runRefinementsAll(_, _, _, _, _, _)
\* runRefinements collecting the issue of every failing predicate
runRefinementsAll(refinements, idx, id, value, path, issues) ==
    IF idx > Len(refinements)
    THEN IF issues = <<>> THEN Ok(value, "data", <<>>) ELSE Fail(issues, <<>>)
    ELSE LET r == refinements[idx]
             res == Check(r.check, value)
             ev == <<CheckEv(id, path, idx, res)>>
             issue == [path |-> path, message |-> [text |-> r.message],
                       expected |-> "refinement to pass", received |-> TypeOf(value)]
         IN IF res = "throw" THEN Throw(ev)
            ELSE LET rest == runRefinementsAll(refinements, idx + 1, id, value, path,
                                 IF res = "false" THEN Append(issues, issue) ELSE issues)
                 IN [rest EXCEPT !.log = ev \o rest.log]

runRefinements_exhaustive(h, id, value, path) ==
    runRefinementsAll(h[id].refinements, 1, id, value, path, <<>>)

runRefinements(h, id, value, path) ==
    runRefinementsFrom(h[id].refinements, 1, id, value, path)

(***************************************************************************)
(* The schema classes.  h is the heap: h[id] is the instance id, a record  *)
(* of its class (kind), its refinements and the fields of its class.       *)
(***************************************************************************)
RECURSIVE _parse(_, _, _, _)
RECURSIVE _parseWithRefinements(_, _, _, _)
RECURSIVE mapItems(_, _, _, _, _, _)
RECURSIVE tryOptions(_, _, _, _, _, _)
RECURSIVE parseFields(_, _, _, _, _, _, _)

\* VOptional._parse returning null for undefined
VOptional_parse_null(h, id, path, data) ==
    IF data.k = "undefined" THEN Ok(Null, "data", <<>>)
    ELSE _parse(h, h[id].inner, path, data)

VOptional_parse(h, id, path, data) ==
    IF data.k = "undefined" THEN Ok(Undefined, "data", <<>>)
    ELSE _parse(h, h[id].inner, path, data)

\* VNullable._parse returning undefined for null
VNullable_parse_undefined(h, id, path, data) ==
    IF data.k = "null" THEN Ok(Undefined, "data", <<>>)
    ELSE _parse(h, h[id].inner, path, data)

VNullable_parse(h, id, path, data) ==
    IF data.k = "null" THEN Ok(Null, "data", <<>>)
    ELSE _parse(h, h[id].inner, path, data)

VString_parse(h, id, path, data) ==
    IF TypeOf(data) # "string"
    THEN Fail(makeError(path, "string", TypeOf(data), data), <<>>)
    ELSE Ok(data, "data", <<>>)

\* VNumber._parse without the isNaN test
VNumber_parse_typeofOnly(h, id, path, data) ==
    IF TypeOf(data) # "number"
    THEN Fail(makeError(path, "number", TypeOf(data), data), <<>>)
    ELSE Ok(data, "data", <<>>)

VNumber_parse(h, id, path, data) ==
    IF TypeOf(data) # "number" \/ data.k = "NaN"
    THEN Fail(makeError(path, "number", TypeOf(data), data), <<>>)
    ELSE Ok(data, "data", <<>>)

VBoolean_parse(h, id, path, data) ==
    IF TypeOf(data) # "boolean"
    THEN Fail(makeError(path, "boolean", TypeOf(data), data), <<>>)
    ELSE Ok(data, "data", <<>>)

VDate_parse(h, id, path, data) ==
    IF data.k # "Date" \/ data.t = "NaN"
    THEN Fail(makeError(path, "Date", TypeOf(data), data), <<>>)
    ELSE Ok(data, "data", <<>>)

\* data.map((item, i) => element._parse([...path, i], item)) from item i on;
\* acc holds the slots mapped so far
mapItems(h, element, path, items, i, acc) ==
    IF i > Len(items) THEN Ok(Arr(acc), "new", <<>>)
    ELSE LET r == _parse(h, element, Append(path, IdxSeg(i - 1)), items[i])
         IN IF r.st # "ok" THEN r
            ELSE LET rest == mapItems(h, element, path, items, i + 1, Append(acc, r.val))
                 IN [rest EXCEPT !.log = r.log \o rest.log]

VArray_parse(h, id, path, data) ==
    IF data.k # "array"
    THEN Fail(makeError(path, "array", TypeOf(data), data), <<>>)
    ELSE mapItems(h, h[id].element, path, data.items, 1, <<>>)

\* `literal ${JSON.stringify(this.val)}` for a string, number or boolean val
LiteralExpected(val) ==
    "literal " \o (CASE val.k = "string" -> "\"" \o val.s \o "\""
                     [] val.k = "number" -> ToString(val.n)
                     [] val.k = "boolean" -> IF val.b THEN "true" ELSE "false")

VLiteral_parse(h, id, path, data) ==
    IF data # h[id].val
    THEN Fail(makeError(path, LiteralExpected(h[id].val), TypeOf(data), data), <<>>)
    ELSE Ok(h[id].val, "val", <<>>)

\* the loop over this.options from option i on; errors holds the issues
\* pushed so far
tryOptions(h, options, path, data, i, errors) ==
    IF i > Len(options) THEN Fail(errors, <<>>)
    ELSE LET r == _parse(h, options[i], path, data)
         IN IF r.st # "fail" THEN r
            ELSE LET rest == tryOptions(h, options, path, data, i + 1, errors \o r.issues)
                 IN [rest EXCEPT !.log = r.log \o rest.log]

RECURSIVE tryOptionsLast(_, _, _, _, _, _)
\* the loop of VUnion._parse keeping only the issues of the option tried last
tryOptionsLast(h, options, path, data, i, errors) ==
    IF i > Len(options) THEN Fail(errors, <<>>)
    ELSE LET r == _parse(h, options[i], path, data)
         IN IF r.st # "fail" THEN r
            ELSE LET rest == tryOptionsLast(h, options, path, data, i + 1, r.issues)
                 IN [rest EXCEPT !.log = r.log \o rest.log]

VUnion_parse_lastError(h, id, path, data) ==
    tryOptionsLast(h, h[id].options, path, data, 1, <<>>)

VUnion_parse(h, id, path, data) ==
    tryOptions(h, h[id].options, path, data, 1, <<>>)

\* rank of the i-th declared key in the for...in enumeration of a shape:
\* array-index keys first, in ascending numeric order, then the others in
\* declaration order
ForInRank(shape, i) ==
    IF KeyIndex(shape[i].key) >= 0 THEN KeyIndex(shape[i].key)
    ELSE KeyIndex("2") + i

\* the declared fields in the order for (const key in this.shape) visits them
ForInOrder(shape) ==
    CHOOSE order \in [1..Len(shape) -> 1..Len(shape)] :
        /\ \A i, j \in 1..Len(shape) : i # j => order[i] # order[j]
        /\ \A i, j \in 1..Len(shape) :
              i < j => ForInRank(shape, order[i]) < ForInRank(shape, order[j])

\* the loop over the shape from the i-th visited field on; result holds the
\* keys assigned so far
parseFields(h, shape, order, path, obj, i, result) ==
    IF i > Len(order) THEN Ok(Obj(result), "new", <<>>)
    ELSE LET key == shape[order[i]].key
             val == GetProp(obj, key)
             schema == shape[order[i]].schema
             r == _parseWithRefinements(h, schema, Append(path, KeySeg(key)), val)
         IN IF r.st # "ok" THEN r
            ELSE LET assigned == [q \in DOMAIN result \cup {key} |->
                                    IF q = key THEN r.val ELSE result[q]]
                     rest == parseFields(h, shape, order, path, obj, i + 1, assigned)
                 IN [rest EXCEPT !.log = r.log \o rest.log]

\* VObject._parse with result starting as a copy of the own keys of a plain
\* object input
VObject_parse_spread(h, id, path, data) ==
    IF TypeOf(data) # "object" \/ data.k = "null"
    THEN Fail(makeError(path, "object", TypeOf(data), data), <<>>)
    ELSE parseFields(h, h[id].shape, ForInOrder(h[id].shape), path, data, 1,
                     IF data.k = "object" THEN data.fields ELSE <<>>)

VObject_parse(h, id, path, data) ==
    IF TypeOf(data) # "object" \/ data.k = "null"
    THEN Fail(makeError(path, "object", TypeOf(data), data), <<>>)
    ELSE parseFields(h, h[id].shape, ForInOrder(h[id].shape), path, data, 1, <<>>)

\* the dynamic dispatch of this._parse(path, data)
_parse(h, id, path, data) ==
    LET kind == h[id].kind
        r == CASE kind = "optional" -> VOptional_parse(h, id, path, data)
               [] kind = "nullable" -> VNullable_parse(h, id, path, data)
               [] kind = "string" -> VString_parse(h, id, path, data)
               [] kind = "number" -> VNumber_parse(h, id, path, data)
               [] kind = "boolean" -> VBoolean_parse(h, id, path, data)
               [] kind = "date" -> VDate_parse(h, id, path, data)
               [] kind = "array" -> VArray_parse(h, id, path, data)
               [] kind = "literal" -> VLiteral_parse(h, id, path, data)
               [] kind = "union" -> VUnion_parse(h, id, path, data)
               [] kind = "object" -> VObject_parse(h, id, path, data)
    IN [r EXCEPT !.log = <<ParseEv(id, path)>> \o r.log]

_parseWithRefinements(h, id, path, data) ==
    LET value == _parse(h, id, path, data)
    IN IF value.st # "ok" THEN value
       ELSE LET refined == runRefinements(h, id, value.val, path)
            IN [refined EXCEPT !.log = value.log \o refined.log,
                               !.ref = IF refined.st = "ok" THEN value.ref ELSE "none"]

\* VType.parse
parse(h, id, data) == _parseWithRefinements(h, id, <<>>, data)

\* a ParseResult
Success(data) == [success |-> TRUE, data |-> data]
Failure(issues) == [success |-> FALSE, error |-> [issues |-> issues]]

\* safeParse without the call of runRefinements
safeParse_structural(h, id, data) ==
    LET parsed == _parse(h, id, <<>>, data)
    IN CASE parsed.st = "ok" -> Ok(Success(parsed.val), "new", parsed.log)
         [] parsed.st = "fail" -> Ok(Failure(parsed.issues), "new", parsed.log)
         [] OTHER -> Throw(parsed.log)

\* VType.safeParse: the try block, then the catch clause
safeParse(h, id, data) ==
    LET parsed == _parse(h, id, <<>>, data)
        refined == IF parsed.st # "ok" THEN parsed
                   ELSE LET r == runRefinements(h, id, parsed.val, <<>>)
                        IN [r EXCEPT !.log = parsed.log \o r.log]
    IN CASE refined.st = "ok" -> Ok(Success(parsed.val), "new", refined.log)
         [] refined.st = "fail" -> Ok(Failure(refined.issues), "new", refined.log)
         [] OTHER -> Throw(refined.log)

(***************************************************************************)
(* State: the heap of schema instances and the call whose outcome the      *)
(* caller holds.                                                           *)
(***************************************************************************)
VARIABLES heap, last

vars == <<heap, last>>

Ids == 1..Len(heap)

\* the refinements of a newly constructed instance (index.ts line 44)
NoRefinements == <<>>

VString == [kind |-> "string", refinements |-> NoRefinements]
VNumber == [kind |-> "number", refinements |-> NoRefinements]
VBoolean == [kind |-> "boolean", refinements |-> NoRefinements]
VDate == [kind |-> "date", refinements |-> NoRefinements]
VArray(element) == [kind |-> "array", refinements |-> NoRefinements, element |-> element]
VLiteral(val) == [kind |-> "literal", refinements |-> NoRefinements, val |-> val]
VUnion(options) == [kind |-> "union", refinements |-> NoRefinements, options |-> options]
VObject(shape) == [kind |-> "object", refinements |-> NoRefinements, shape |-> shape]
VOptional(inner) == [kind |-> "optional", refinements |-> NoRefinements, inner |-> inner]
VNullable(inner) == [kind |-> "nullable", refinements |-> NoRefinements, inner |-> inner]

\* the properties of the validator namespace that are schema factories
validator ==
    {"string", "number", "boolean", "date", "array", "literal", "union", "object"}

NoCall == [op |-> "none"]
Idle == last = NoCall

\* refine() calls made so far
RECURSIVE RefineCount(_, _)
RefineCount(h, i) ==
    IF i > Len(h) THEN 0 ELSE Len(h[i].refinements) + RefineCount(h, i + 1)

\* new X(...): the instance is allocated and the caller holds no outcome;
\* max bounds the instances constructed plus the refine() calls made
New(node, max) ==
    /\ Idle
    /\ Len(heap) + RefineCount(heap, 1) < max
    /\ heap' = Append(heap, node)
    /\ UNCHANGED last

(***************************************************************************)
(* Inputs of the calls.                                                    *)
(***************************************************************************)
Literals == {Str("a"), Str("b")}
\* the keys shapes declare; "c" is a key no shape declares
Keys == {"a", "0"}
\* the (check, message) pairs passed to refine()
Refinements ==
    {[check |-> "never", message |-> "A"], [check |-> "never", message |-> "B"],
     [check |-> "nonEmpty", message |-> "A"], [check |-> "boom", message |-> "B"]}
\* the value sets of the enumerations passed to enum()
Enums == {{Str("a"), Str("b")}, {Num(0), Num(1)}}

Scalars ==
    {Undefined, Null, NaN, Str(""), Str("a"), Num(1), Bool(TRUE),
     DateOf("2024-01-01"), DateOf("NaN")}
SeqsUpTo(S, n) == UNION {[1..m -> S] : m \in 0..n}
Arrays == {Arr(items) : items \in SeqsUpTo({Undefined, Num(1), Str("a")}, MaxItems)}
\* the objects whose own keys are among a, 0 and c, with values of as, zs, cs
ObjectsOver(as, zs, cs) ==
    {Obj(fields) : fields \in
        UNION {{f \in [ks -> as \cup zs \cup cs] :
                  /\ "a" \in ks => f["a"] \in as
                  /\ "0" \in ks => f["0"] \in zs
                  /\ "c" \in ks => f["c"] \in cs} : ks \in SUBSET {"a", "0", "c"}}}
FlatObjects == ObjectsOver({Num(1), Str("a")}, {Num(1), Str("a")}, {Num(1)})
NestedObjects ==
    ObjectsOver({Obj([q \in {"a", "c"} |-> IF q = "a" THEN Str("a") ELSE Num(1)])},
                {}, {Num(1)})
Values == Scalars \cup Arrays \cup FlatObjects \cup NestedObjects

\* sequences of at most n distinct keys, each with a schema of the heap
Shapes(n) ==
    {shape \in SeqsUpTo([key : Keys, schema : Ids], n) :
        \A i, j \in 1..Len(shape) : i # j => shape[i].key # shape[j].key}

(***************************************************************************)
(* The factories of the validator namespace and the methods of VType.      *)
(***************************************************************************)
validator_string(max) == \E node \in {VString} : New(node, max)
validator_number(max) == \E node \in {VNumber} : New(node, max)
validator_boolean(max) == \E node \in {VBoolean} : New(node, max)
validator_date(max) == \E node \in {VDate} : New(node, max)
validator_array(max) == \E schema \in Ids : New(VArray(schema), max)
validator_literal(max) == \E val \in Literals : New(VLiteral(val), max)
validator_union(max) ==
    \E schemas \in SeqsUpTo(Ids, MaxOptions) :
        Len(schemas) >= 1 /\ New(VUnion(schemas), max)
validator_object(max, fields) == \E shape \in Shapes(fields) : New(VObject(shape), max)

\* validator.enum(E): a call of a property the namespace may not have
validator_enum ==
    \E E \in Enums :
        /\ Idle
        /\ last' = [op |-> "enum", data |-> E,
                    out |-> IF "enum" \in validator THEN Ok(E, "new", <<>>)
                            ELSE Throw(<<>>)]
        /\ UNCHANGED heap

\* the methods that build or change a schema: the heap after the call and
\* the instance the call returns
optional(h, this) == [heap |-> Append(h, VOptional(this)), ret |-> Len(h) + 1]
nullable(h, this) == [heap |-> Append(h, VNullable(this)), ret |-> Len(h) + 1]

\* refine() with unshift in place of push
refine_unshift(h, this, refinement) ==
    [heap |-> [h EXCEPT ![this].refinements = <<refinement>> \o @], ret |-> this]

refine(h, this, refinement) ==
    [heap |-> [h EXCEPT ![this].refinements = Append(@, refinement)], ret |-> this]

Optional(max) ==
    \E this \in Ids :
        /\ Idle
        /\ Len(heap) + RefineCount(heap, 1) < max
        /\ heap' = optional(heap, this).heap
        /\ UNCHANGED last

Nullable(max) ==
    \E this \in Ids :
        /\ Idle
        /\ Len(heap) + RefineCount(heap, 1) < max
        /\ heap' = nullable(heap, this).heap
        /\ UNCHANGED last

Refine(max) ==
    \E this \in Ids, refinement \in Refinements :
        /\ Idle
        /\ Len(heap) + RefineCount(heap, 1) < max
        /\ heap' = refine(heap, this, refinement).heap
        /\ UNCHANGED last

Parse(inputs) ==
    \E this \in Ids, data \in inputs :
        /\ Idle
        /\ last' = [op |-> "parse", this |-> this, data |-> data,
                    out |-> parse(heap, this, data)]
        /\ UNCHANGED heap

SafeParse(inputs) ==
    \E this \in Ids, data \in inputs :
        /\ Idle
        /\ last' = [op |-> "safeParse", this |-> this, data |-> data,
                    out |-> safeParse(heap, this, data)]
        /\ UNCHANGED heap

\* the caller is done with the outcome it holds
Discard ==
    /\ ~Idle
    /\ last' = NoCall
    /\ UNCHANGED heap

(***************************************************************************)
(* Spec: any schema built of at most MaxSize constructions and refine()    *)
(* calls, parsed with any value.                                           *)
(***************************************************************************)
Init ==
    /\ heap = <<>>
    /\ last = NoCall

Next ==
    \/ validator_string(MaxSize)
    \/ validator_number(MaxSize)
    \/ validator_boolean(MaxSize)
    \/ validator_date(MaxSize)
    \/ validator_array(MaxSize)
    \/ validator_literal(MaxSize)
    \/ validator_union(MaxSize)
    \/ validator_object(MaxSize, MaxFields)
    \/ validator_enum
    \/ Optional(MaxSize)
    \/ Nullable(MaxSize)
    \/ Refine(MaxSize)
    \/ Parse(Values)
    \/ SafeParse(Values)
    \/ Discard

Spec == Init /\ [][Next]_vars

(***************************************************************************)
(* SpecMod: chains of optional() and nullable() over string schemas, with  *)
(* refinements, parsed with the scalar values.                             *)
(***************************************************************************)
NextMod ==
    \/ validator_string(MaxChain)
    \/ Optional(MaxChain)
    \/ Nullable(MaxChain)
    \/ Refine(MaxChain)
    \/ Parse(Scalars)
    \/ SafeParse(Scalars)
    \/ Discard

SpecMod == Init /\ [][NextMod]_vars

(***************************************************************************)
(* SpecUnion: unions and objects built over a string schema and its        *)
(* optional() wrapper, parsed with the flat objects.                       *)
(***************************************************************************)
InitUnion ==
    /\ heap = <<VString, VOptional(1)>>
    /\ last = NoCall

NextUnion ==
    \/ validator_union(MaxUnion)
    \/ validator_object(MaxUnion, MaxFields - 1)
    \/ Parse(FlatObjects)
    \/ Discard

SpecUnion == InitUnion /\ [][NextUnion]_vars

(***************************************************************************)
(* Properties.                                                             *)
(***************************************************************************)
Called(op) == last.op = op
Root == heap[last.this]

\* the outcome of safeParse that corresponds to an outcome of parse
AsParseResult(p) ==
    CASE p.st = "ok" -> [st |-> "ok", val |-> Success(p.val)]
      [] p.st = "fail" -> [st |-> "ok", val |-> Failure(p.issues)]
      [] OTHER -> [st |-> "throw", val |-> Undefined]

\* C1: safeParse(v) and parse(v) have the same outcome: a success result with
\* the value parse returns, a failure result with the issues of the
\* ValidationError parse raises, and any other error raised as parse raises it;
\* both make the same calls in the same order.
C1_SafeParseAsParse ==
    /\ Called("safeParse") =>
          LET p == parse(heap, last.this, last.data)
          IN /\ [st |-> last.out.st, val |-> last.out.val] = AsParseResult(p)
             /\ last.out.log = p.log
    /\ Called("parse") =>
          LET r == safeParse(heap, last.this, last.data)
          IN /\ AsParseResult(last.out) = [st |-> r.st, val |-> r.val]
             /\ last.out.log = r.log

\* a safeParse that returns the failure of a refinement of the root schema
C1_Witness ==
    /\ Called("safeParse")
    /\ last.out.st = "ok"
    /\ ~last.out.val.success
    /\ last.out.val.error.issues[1].expected = "refinement to pass"

\* a safeParse that lets the error of a throwing predicate propagate
C1_WitnessThrow ==
    /\ Called("safeParse")
    /\ last.out.st = "throw"

\* the outcome the caller of parse or safeParse holds: ok, fail or throw,
\* with the value or the issues
Outcome ==
    IF Called("safeParse") /\ last.out.st = "ok"
    THEN IF last.out.val.success
         THEN [st |-> "ok", val |-> last.out.val.data, issues |-> <<>>]
         ELSE [st |-> "fail", val |-> Undefined, issues |-> last.out.val.error.issues]
    ELSE [st |-> last.out.st, val |-> last.out.val, issues |-> last.out.issues]

Primitives == {"string", "number", "boolean", "date"}

\* the runtime kind of v is the kind of the primitive
KindMatches(kind, v) ==
    CASE kind = "string" -> v.k = "string"
      [] kind = "number" -> v.k = "number"
      [] kind = "boolean" -> v.k = "boolean"
      [] kind = "date" -> v.k = "Date" /\ v.t # "NaN"

\* the name a primitive gives as expected
PrimitiveName(kind) == IF kind = "date" THEN "Date" ELSE kind

\* C9: a primitive schema (string, number, boolean, date) accepts v exactly when
\* v is of its kind (a number that is not NaN, a Date whose time is not NaN) and
\* then returns v itself; otherwise it raises one issue at the root whose
\* expected is the primitive's name and whose received is typeof v, and whose
\* message holds the path, both of them and the JSON rendering of v.
C9_Primitives ==
    (Called("parse") /\ Root.kind \in Primitives /\ Root.refinements = <<>>) =>
        IF KindMatches(Root.kind, last.data)
        THEN /\ last.out.st = "ok"
             /\ last.out.val = last.data
             /\ last.out.ref = "data"
        ELSE /\ last.out.st = "fail"
             /\ Len(last.out.issues) = 1
             /\ last.out.issues[1].path = <<>>
             /\ last.out.issues[1].expected = PrimitiveName(Root.kind)
             /\ last.out.issues[1].received = TypeOf(last.data)
             /\ last.out.issues[1].message =
                   [text |-> "Invalid value at", at |-> <<>>,
                    expected |-> PrimitiveName(Root.kind),
                    received |-> TypeOf(last.data),
                    value |-> JSONstringify(last.data)]

\* number() has rejected NaN, whose typeof is number
C9_Witness ==
    /\ Called("parse")
    /\ Root.kind = "number"
    /\ Root.refinements = <<>>
    /\ last.data = NaN
    /\ last.out.st = "fail"
    /\ last.out.issues[1].received = "number"

\* C6: the refinements of the parsed schema are evaluated only after its
\* structural parse has succeeded, in the order refine() added them, each on
\* the value the structural parse returned, up to the first predicate that
\* does not return true; when that predicate returns false the call fails with
\* the single issue carrying its message, and when the structural parse fails
\* no predicate is evaluated.
C6_RefinementOrder ==
    (Called("parse") \/ Called("safeParse")) =>
        LET structural == _parse(heap, last.this, <<>>, last.data)
            refs == Root.refinements
            IsCheck(e) == e.ev = "check"
            checks == SelectSeq(last.out.log, IsCheck)
            n == Len(checks)
        IN IF structural.st # "ok"
           THEN \A i \in 1..n : checks[i].id # last.this
           ELSE /\ last.out.log = structural.log \o SubSeq(last.out.log, Len(structural.log) + 1, Len(last.out.log))
                /\ LET mine == SubSeq(last.out.log, Len(structural.log) + 1, Len(last.out.log))
                       m == Len(mine)
                   IN /\ m <= Len(refs)
                      /\ \A i \in 1..m :
                            mine[i] = CheckEv(last.this, <<>>, i,
                                              Check(refs[i].check, structural.val))
                      /\ \A i \in 1..(m - 1) : mine[i].res = "true"
                      /\ m < Len(refs) => m >= 1 /\ mine[m].res # "true"
                      /\ (m >= 1 /\ mine[m].res = "false") =>
                            /\ Outcome.st = "fail"
                            /\ Len(Outcome.issues) = 1
                            /\ Outcome.issues[1].message = [text |-> refs[m].message]
                      /\ (\A i \in 1..m : mine[i].res = "true") =>
                            /\ Outcome.st = "ok"
                            /\ Outcome.val = structural.val

\* of two refinements that always fail, "A" then "B", only "A" is reported and
\* only the first is evaluated
C6_Witness ==
    /\ Called("parse")
    /\ Len(Root.refinements) = 2
    /\ Root.refinements[1] = [check |-> "never", message |-> "A"]
    /\ Root.refinements[2] = [check |-> "never", message |-> "B"]
    /\ last.out.st = "fail"
    /\ last.out.issues[1].message = [text |-> "A"]
    /\ Len(SelectSeq(last.out.log, LAMBDA e : e.ev = "check")) = 1

\* the keys a shape declares
DeclaredKeys(shape) == {shape[i].key : i \in 1..Len(shape)}

RECURSIVE Pruned(_, _, _)
\* val is a value of the schema id in which every mapping produced by an object
\* schema has exactly the keys its shape declares, at every nesting level
Pruned(h, id, val) ==
    LET n == h[id]
    IN CASE n.kind = "object" ->
               /\ val.k = "object"
               /\ DOMAIN val.fields = DeclaredKeys(n.shape)
               /\ \A i \in 1..Len(n.shape) :
                     Pruned(h, n.shape[i].schema, val.fields[n.shape[i].key])
         [] n.kind = "array" ->
               /\ val.k = "array"
               /\ \A i \in 1..Len(val.items) : Pruned(h, n.element, val.items[i])
         [] n.kind = "optional" -> val = Undefined \/ Pruned(h, n.inner, val)
         [] n.kind = "nullable" -> val = Null \/ Pruned(h, n.inner, val)
         [] n.kind = "union" -> \E i \in 1..Len(n.options) : Pruned(h, n.options[i], val)
         [] OTHER -> val.k \notin {"object", "array"}

\* C2: an object schema given a non-null object returns, when it succeeds, a
\* newly constructed mapping whose keys are exactly the declared keys, so no
\* undeclared key of the input is in the output, at every nesting level of
\* nested object schemas.
C2_ObjectPruning ==
    (Called("parse") /\ Root.kind = "object" /\ last.out.st = "ok") =>
        /\ TypeOf(last.data) = "object" /\ last.data # Null
        /\ last.out.ref = "new"
        /\ Pruned(heap, last.this, last.out.val)
        /\ last.data.k = "object" =>
              \A key \in DOMAIN last.data.fields \ DeclaredKeys(Root.shape) :
                  key \notin DOMAIN last.out.val.fields

\* an input with an undeclared key at two levels has been parsed by an object
\* schema with a nested object schema
C2_Witness ==
    /\ Called("parse")
    /\ Root.kind = "object"
    /\ last.out.st = "ok"
    /\ last.data.k = "object"
    /\ "c" \in DOMAIN last.data.fields
    /\ \E i \in 1..Len(Root.shape) :
          /\ heap[Root.shape[i].schema].kind = "object"
          /\ Root.shape[i].key \in DOMAIN last.data.fields
          /\ last.data.fields[Root.shape[i].key].k = "object"
          /\ "c" \in DOMAIN last.data.fields[Root.shape[i].key].fields

RECURSIVE Concat(_, _)
\* the concatenation of f[1], ..., f[n]
Concat(f, n) == IF n = 0 THEN <<>> ELSE Concat(f, n - 1) \o f[n]

\* C4: a union tries the structural parse of its members in list order on the
\* same input and path; it returns the result of the first member that
\* succeeds and tries no later member; it fails exactly when every member
\* fails, and then with the issues of all members, concatenated in member
\* order.  (A member that raises another error ends the loop with that error.)
C4_UnionFirstMatch ==
    (Called("parse") /\ Root.kind = "union" /\ Root.refinements = <<>>) =>
        LET options == Root.options
            member == [i \in 1..Len(options) |-> _parse(heap, options[i], <<>>, last.data)]
            decided == {i \in 1..Len(options) : member[i].st # "fail"}
            first == IF decided = {} THEN Len(options)
                     ELSE CHOOSE i \in decided : \A j \in decided : i <= j
            tried == Concat([i \in 1..first |-> member[i].log], first)
        IN /\ last.out.st = "fail" <=> \A i \in 1..Len(options) : member[i].st = "fail"
           /\ last.out.st = "fail" =>
                 last.out.issues = Concat([i \in 1..Len(options) |-> member[i].issues],
                                          Len(options))
           /\ last.out.st = "ok" =>
                 /\ member[first].st = "ok"
                 /\ last.out.val = member[first].val
                 /\ \A j \in 1..(first - 1) : member[j].st = "fail"
           /\ (decided # {} /\ member[first].st = "ok") => last.out.st = "ok"
           /\ last.out.log = <<ParseEv(last.this, <<>>)>> \o tried

\* union([literal("a"), literal("b")]) has failed with one issue per member
C4_Witness ==
    /\ Called("parse")
    /\ Root.kind = "union"
    /\ Root.refinements = <<>>
    /\ Len(Root.options) = 2
    /\ last.out.st = "fail"
    /\ Len(last.out.issues) = 2
    /\ last.out.issues[1].expected = "literal \"a\""
    /\ last.out.issues[2].expected = "literal \"b\""

\* a first member has succeeded and the second, which would fail, is not tried
C4_WitnessFirst ==
    /\ Called("parse")
    /\ Root.kind = "union"
    /\ Len(Root.options) = 2
    /\ last.out.st = "ok"
    /\ _parse(heap, Root.options[2], <<>>, last.data).st = "fail"
    /\ Len(last.out.log) = 2

RECURSIVE ContainsObject(_, _)
\* the schema id is, or contains, an object schema
ContainsObject(h, id) ==
    LET n == h[id]
    IN CASE n.kind = "object" -> TRUE
         [] n.kind = "array" -> ContainsObject(h, n.element)
         [] n.kind \in {"optional", "nullable"} -> ContainsObject(h, n.inner)
         [] n.kind = "union" -> \E i \in 1..Len(n.options) : ContainsObject(h, n.options[i])
         [] OTHER -> FALSE

RECURSIVE UnionsOfObjectFree(_, _)
\* no union of the schema id has a member that is or contains an object schema
UnionsOfObjectFree(h, id) ==
    LET n == h[id]
    IN CASE n.kind = "object" ->
               \A i \in 1..Len(n.shape) : UnionsOfObjectFree(h, n.shape[i].schema)
         [] n.kind = "array" -> UnionsOfObjectFree(h, n.element)
         [] n.kind \in {"optional", "nullable"} -> UnionsOfObjectFree(h, n.inner)
         [] n.kind = "union" ->
               \A i \in 1..Len(n.options) : ~ContainsObject(h, n.options[i])
         [] OTHER -> TRUE

RECURSIVE DeepEqual(_, _)
\* equality of two values up to the properties whose value is undefined
DeepEqual(v, w) ==
    CASE v.k = "object" /\ w.k = "object" ->
             LET defined(o) == {key \in DOMAIN o.fields : o.fields[key] # Undefined}
             IN /\ defined(v) = defined(w)
                /\ \A key \in defined(v) : DeepEqual(v.fields[key], w.fields[key])
      [] v.k = "array" /\ w.k = "array" ->
             /\ Len(v.items) = Len(w.items)
             /\ \A i \in 1..Len(v.items) : DeepEqual(v.items[i], w.items[i])
      [] OTHER -> v = w

\* C8, as amended: for a schema in which no union has a member that is or
\* contains an object schema, and an input v it accepts, parse(parse(v))
\* succeeds and returns a value equal to parse(v).
C8_Idempotent ==
    (Called("parse") /\ last.out.st = "ok" /\ UnionsOfObjectFree(heap, last.this)) =>
        LET again == parse(heap, last.this, last.out.val)
        IN /\ again.st = "ok"
           /\ again.val = last.out.val

\* an object schema has dropped the undeclared key c of its input, and a union
\* without object members has accepted its input
C8_Witness ==
    /\ Called("parse")
    /\ last.out.st = "ok"
    /\ UnionsOfObjectFree(heap, last.this)
    /\ \/ /\ Root.kind = "object"
          /\ Len(Root.shape) >= 1
          /\ last.data.k = "object"
          /\ "c" \in DOMAIN last.data.fields
       \/ /\ Root.kind = "union"
          /\ Len(Root.options) = 2

\* C8, as claimed: for every schema and every input v it accepts,
\* parse(parse(v)) succeeds and returns a value deeply equal to parse(v).
C8_IdempotentAnySchema ==
    (Called("parse") /\ last.out.st = "ok") =>
        LET again == parse(heap, last.this, last.out.val)
        IN /\ again.st = "ok"
           /\ DeepEqual(again.val, last.out.val)

\* the outcome of a call without its log
Result(r) == [st |-> r.st, val |-> r.val, issues |-> r.issues]

\* C3, as claimed: for an inner schema S whose parse rejects undefined and
\* null, S.optional() accepts undefined, returning it, and rejects null;
\* S.nullable() accepts null, returning it, and rejects undefined; and
\* S.optional().nullable() returns null for null and undefined for undefined.
C3_Independence ==
    (Called("parse") /\ Root.kind \in {"optional", "nullable"} /\ Root.refinements = <<>>
        /\ last.data \in {Undefined, Null}) =>
        LET Rejects(id) == /\ parse(heap, id, Undefined).st = "fail"
                           /\ parse(heap, id, Null).st = "fail"
            inner == heap[Root.inner]
        IN /\ (Root.kind = "optional" /\ Rejects(Root.inner)) =>
                 IF last.data = Undefined
                 THEN last.out.st = "ok" /\ last.out.val = Undefined
                 ELSE last.out.st = "fail"
           /\ (Root.kind = "nullable" /\ Rejects(Root.inner)) =>
                 IF last.data = Null
                 THEN last.out.st = "ok" /\ last.out.val = Null
                 ELSE last.out.st = "fail"
           /\ (Root.kind = "nullable" /\ inner.kind = "optional"
                 /\ inner.refinements = <<>> /\ Rejects(inner.inner)) =>
                 last.out.st = "ok" /\ last.out.val = last.data

\* C3 for an inner schema that carries no refinement anywhere (not the claim:
\* what holds of the code)
RECURSIVE Unrefined(_, _)
Unrefined(h, id) ==
    /\ h[id].refinements = <<>>
    /\ h[id].kind \in {"optional", "nullable"} => Unrefined(h, h[id].inner)

C3_IndependenceUnrefined ==
    (Called("parse") /\ Unrefined(heap, last.this)) => C3_Independence

\* C5, as claimed: array(E) given a sequence whose first element that E rejects
\* is at index i raises only issues located under path [i], and parses no
\* element after index i; given a value that is no sequence it raises the
\* single issue with expected "array".
C5_ArrayFailFast ==
    (Called("parse") /\ Root.kind = "array" /\ Root.refinements = <<>>) =>
        IF last.data.k # "array"
        THEN /\ last.out.st = "fail"
             /\ Len(last.out.issues) = 1
             /\ last.out.issues[1].expected = "array"
        ELSE LET items == last.data.items
                 rejected == {i \in 1..Len(items) :
                                 parse(heap, Root.element, items[i]).st = "fail"}
                 first == CHOOSE i \in rejected : \A j \in rejected : i <= j
                 Under(path) == Len(path) >= 1 /\ path[1] = IdxSeg(first - 1)
             IN rejected # {} =>
                   /\ last.out.st = "fail"
                   /\ \A k \in 1..Len(last.out.issues) : Under(last.out.issues[k].path)
                   /\ \A k \in 1..Len(last.out.log) :
                         LET path == last.out.log[k].path
                         IN Len(path) >= 1 => path[1].i <= first - 1

\* C5 for an element schema that carries no refinement (not the claim: what
\* holds of the code)
C5_ArrayFailFastUnrefined ==
    (Called("parse") /\ Root.kind = "array" /\ heap[Root.element].refinements = <<>>
        /\ heap[Root.element].kind \notin {"optional", "nullable", "union", "array"}) =>
        C5_ArrayFailFast

\* C7, as claimed: the call validator.enum(E) returns a schema (whose parse
\* accepts exactly the values of E).
C7_EnumFactory == Called("enum") => last.out.st = "ok"

\* C10, as claimed: for v other than undefined, S.optional().parse(v) has the
\* outcome of S.parse(v); for v other than null, S.nullable().parse(v) has the
\* outcome of S.parse(v).
C10_WrapperDelegates ==
    (Called("parse") /\ Root.refinements = <<>>) =>
        /\ (Root.kind = "optional" /\ last.data # Undefined) =>
              Result(last.out) = Result(parse(heap, Root.inner, last.data))
        /\ (Root.kind = "nullable" /\ last.data # Null) =>
              Result(last.out) = Result(parse(heap, Root.inner, last.data))

\* C10 with the structural parse of S in the place of S.parse (not the claim:
\* what holds of the code)
C10_WrapperDelegatesStructural ==
    (Called("parse") /\ Root.refinements = <<>>) =>
        /\ (Root.kind = "optional" /\ last.data # Undefined) =>
              Result(last.out) = Result(_parse(heap, Root.inner, <<>>, last.data))
        /\ (Root.kind = "nullable" /\ last.data # Null) =>
              Result(last.out) = Result(_parse(heap, Root.inner, <<>>, last.data))

\* C11: the refinement list of an instance is its only mutable state and is
\* append-only.  In every step at most one existing instance changes, and
\* only by one entry appended at the end of its refinements by refine(),
\* which returns that instance; optional() and nullable() allocate a new
\* wrapper without refinements and leave every existing instance as it was;
\* parse and safeParse change no instance; and in every step that is no
\* refine() each existing instance gives the same outcome for the same input
\* before and after.
Changed == {i \in Ids : heap'[i] # heap[i]}
C11_AppendOnly ==
    [][/\ Len(heap') >= Len(heap)
       /\ Cardinality(Changed) <= 1
       /\ \A i \in Changed :
             /\ Len(heap') = Len(heap)
             /\ \E r \in Refinements :
                   /\ heap'[i] = [heap[i] EXCEPT !.refinements = Append(@, r)]
                   /\ refine(heap, i, r).ret = i
       /\ Len(heap') > Len(heap) =>
             /\ Len(heap') = Len(heap) + 1
             /\ Changed = {}
             /\ heap'[Len(heap')].refinements = <<>>
             /\ heap'[Len(heap')].kind \in {"optional", "nullable"} =>
                   /\ heap'[Len(heap')].inner \in Ids
                   /\ optional(heap, heap'[Len(heap')].inner).ret \notin Ids
                   /\ nullable(heap, heap'[Len(heap')].inner).ret \notin Ids
       /\ last' # last => heap' = heap
       /\ Changed = {} =>
             \A i \in Ids, v \in Scalars :
                 /\ parse(heap', i, v) = parse(heap, i, v)
                 /\ safeParse(heap', i, v) = safeParse(heap, i, v)]_vars

\* an instance refined twice with different entries, wrapped, and parsed with
C11_Witness ==
    /\ Called("parse")
    /\ Len(Root.refinements) = 2
    /\ Root.refinements[1] # Root.refinements[2]
    /\ \E j \in Ids : heap[j].kind \in {"optional", "nullable"} /\ heap[j].inner = last.this

\* the outcome of the field declared i-th in a shape, parsed on its own
FieldOutcome(h, shape, i, obj) ==
    _parseWithRefinements(h, shape[i].schema, <<KeySeg(shape[i].key)>>,
                          GetProp(obj, shape[i].key))
\* the positions, in a given visiting order, of the fields that do not parse
InvalidAt(h, shape, order, obj) ==
    {n \in 1..Len(shape) : FieldOutcome(h, shape, order[n], obj).st # "ok"}
Least(S) == CHOOSE n \in S : \A m \in S : n <= m
\* the keys of the fields a log shows were checked
KeysChecked(log) == {log[n].path[1].s : n \in {m \in 1..Len(log) : log[m].path # <<>>}}
\* parse of an object schema on a non-null object with an invalid field
\* raises what the first invalid field of the order raises, having checked
\* the fields up to it and none after it
FailFastIn(order) ==
    LET shape == Root.shape
        bad == InvalidAt(heap, shape, order, last.data)
    IN (/\ Called("parse")
        /\ Root.kind = "object"
        /\ TypeOf(last.data) = "object" /\ last.data.k # "null"
        /\ bad # {})
       => LET first == Least(bad)
              r == FieldOutcome(heap, shape, order[first], last.data)
          IN /\ last.out.st = r.st
             /\ last.out.issues = r.issues
             /\ KeysChecked(last.out.log) = {shape[order[n]].key : n \in 1..first}
DeclarationOrder == [n \in 1..Len(Root.shape) |-> n]

\* C12: object validation visits the declared fields in shape-declaration
\* order and is fail-fast: parse of a non-null object with one or more
\* invalid fields raises the issue(s) of the invalid field declared first,
\* and no field declared after it is checked, whatever the field names.
C12_ObjectDeclarationOrder == FailFastIn(DeclarationOrder)

\* the same with the fields taken in the order of for (const key in shape)
C12_ObjectForInOrder ==
    (Called("parse") /\ Root.kind = "object") => FailFastIn(ForInOrder(Root.shape))

\* both fields of a two-field shape are invalid and the integer-like key is
\* declared second
C12_Witness ==
    /\ Called("parse")
    /\ Root.kind = "object"
    /\ Len(Root.shape) = 2
    /\ Root.shape[2].key = "0"
    /\ TypeOf(last.data) = "object" /\ last.data.k # "null"
    /\ InvalidAt(heap, Root.shape, DeclarationOrder, last.data) = {1, 2}

\* parse of an unrefined array schema on an array succeeds exactly when
\* accept(element, item) is "ok" for every item, and then returns a new array
\* of the same length holding those values in order
ArrayOf(accept(_, _)) ==
    (/\ Called("parse")
     /\ Root.kind = "array"
     /\ Root.refinements = <<>>
     /\ last.data.k = "array")
    => LET items == last.data.items
           each == [i \in 1..Len(items) |-> accept(Root.element, items[i])]
       IN /\ last.out.st = "ok" <=> \A i \in 1..Len(items) : each[i].st = "ok"
          /\ last.out.st = "ok" =>
                /\ last.out.ref = "new"
                /\ last.out.val = Arr([i \in 1..Len(items) |-> each[i].val])
ElementParse(element, item) == parse(heap, element, item)
ElementStructural(element, item) == _parse(heap, element, <<>>, item)

\* C13: array(E).parse(xs) succeeds if and only if E.parse accepts every
\* element of xs, the refinements attached to E included, and then returns a
\* newly allocated array of the same length and order whose slot i holds the
\* value E.parse returns for xs[i].
C13_ArrayElementsAsWhole == ArrayOf(ElementParse)

\* the same with E's structural check alone deciding each element
C13_ArrayElementsStructural == ArrayOf(ElementStructural)

\* an array with an element that E passes structurally and rejects by a
\* refinement
C13_Witness ==
    /\ Called("parse")
    /\ Root.kind = "array"
    /\ Root.refinements = <<>>
    /\ last.data.k = "array"
    /\ \E i \in 1..Len(last.data.items) :
          /\ ElementStructural(Root.element, last.data.items[i]).st = "ok"
          /\ ElementParse(Root.element, last.data.items[i]).st = "fail"

\* the issues a parse or safeParse call reported
Issues ==
    CASE Called("parse") /\ last.out.st = "fail" -> last.out.issues
      [] Called("safeParse") /\ last.out.st = "ok" /\ ~last.out.val.success ->
            last.out.val.error.issues
      [] OTHER -> <<>>
Missing == [k |-> "missing"]
RECURSIVE Resolve(_, _)
\* the value a path leads to in an input: a field name selects a property of
\* a non-null object, an index an item of an array; Missing when it leads
\* nowhere
Resolve(v, path) ==
    IF path = <<>> THEN v
    ELSE LET seg == path[1]
         IN CASE seg.t = "key" /\ TypeOf(v) = "object" /\ v.k # "null" ->
                    Resolve(GetProp(v, seg.s), Tail(path))
              [] seg.t = "idx" /\ v.k = "array" /\ seg.i \in 0..(Len(v.items) - 1) ->
                    Resolve(v.items[seg.i + 1], Tail(path))
              [] OTHER -> Missing
RECURSIVE SchemasAt(_, _, _)
\* the schemas a path leads to from schema id: a field name descends into
\* that field of an object schema, an index into the element of an array
\* schema, and optional, nullable and union nodes take no segment
SchemasAt(h, id, path) ==
    LET node == h[id]
        here == IF path = <<>> THEN {id} ELSE {}
    IN CASE node.kind \in {"optional", "nullable"} ->
                here \cup SchemasAt(h, node.inner, path)
         [] node.kind = "union" ->
                here \cup UNION {SchemasAt(h, node.options[n], path) :
                                    n \in 1..Len(node.options)}
         [] node.kind = "object" /\ path # <<>> /\ path[1].t = "key" ->
                UNION {SchemasAt(h, node.shape[n].schema, Tail(path)) :
                         n \in {m \in 1..Len(node.shape) : node.shape[m].key = path[1].s}}
         [] node.kind = "array" /\ path # <<>> /\ path[1].t = "idx" ->
                SchemasAt(h, node.element, Tail(path))
         [] OTHER -> here
\* issue is one the schema node raises: its structural issue or the issue of
\* one of its refinements
RaisedBy(node, issue) ==
    \/ /\ node.kind \in Primitives \cup {"array", "object"}
       /\ issue.expected = PrimitiveName(node.kind)
    \/ /\ node.kind = "literal"
       /\ issue.expected = LiteralExpected(node.val)
    \/ /\ issue.expected = "refinement to pass"
       /\ \E n \in 1..Len(node.refinements) :
             issue.message = [text |-> node.refinements[n].message]

\* C14: every issue of a failed parse or safeParse carries the full path from
\* the root to the offending value: the path leads, by object field names and
\* 0-based array indices in descent order, to a value of the input whose
\* runtime kind is the issue's received, and to a schema of the tree that
\* raises the issue, optional, nullable and union nodes adding no segment;
\* it is empty for a failure of the root, and a refinement failure of an
\* object field is reported at that field's path.
C14_FullPath ==
    \A n \in 1..Len(Issues) :
        LET issue == Issues[n]
            value == Resolve(last.data, issue.path)
        IN /\ value # Missing
           /\ issue.received = TypeOf(value)
           /\ \E id \in SchemasAt(heap, last.this, issue.path) : RaisedBy(heap[id], issue)
           /\ (\/ Root.kind \in Primitives \cup {"literal"}
               \/ TypeOf(last.data) # "object"
               \/ last.data.k = "null") => issue.path = <<>>

\* an issue two segments below the root
C14_Witness ==
    \E n \in 1..Len(Issues) : Len(Issues[n].path) = 2

\* an issue at the second item of an array
C14_WitnessIndex ==
    \E n \in 1..Len(Issues) : Issues[n].path = <<[t |-> "idx", i |-> 1]>>

\* a refinement failure of an object field, reported at the field's path
C14_WitnessRefinement ==
    \E n \in 1..Len(Issues) :
        /\ Issues[n].expected = "refinement to pass"
        /\ Issues[n].path = <<[t |-> "key", s |-> "a"]>>

====
